---- MODULE Spec2Model ----
(***************************************************************************)
(* Model of redash/query_runner/presto.py: the Presto query runner.        *)
(* Presto.run_query opens a connection, executes a query and returns the   *)
(* pair (json_data, error); Presto.get_schema builds the catalog query,    *)
(* runs it through run_query and folds the rows into table entries.        *)
(*                                                                         *)
(* Python values that can be None or of several types are tagged records.  *)
(* Text is a sequence of indivisible pieces (letters, a blank, a comma),   *)
(* so that split, strip, format and join do what the code does.            *)
(***************************************************************************)
EXTENDS Integers, Sequences, FiniteSets, TLC

(* ------------------------------ bounds --------------------------------- *)
MaxLen == 4          \* longest blacklisted_table_schemas setting
MaxCols == 2         \* most columns of a user query's result
MaxRows == 2         \* most rows of a user query's result
MaxCatalogRows == 3  \* most rows of the catalog query's result
MaxTypeCols == 2     \* most columns when every native type name is tried

(* --------------------------- Python values ----------------------------- *)
None == [t |-> "NoneType"]
Str(s) == [t |-> "str", v |-> s]
PyInt(n) == [t |-> "int", n |-> n]
Dict(f) == [t |-> "dict", v |-> f]
PySet(s) == [t |-> "set", v |-> s]
User(e) == [t |-> "User", email |-> e]
EmptyDict == Dict(<<>>)

Min(a, b) == IF a < b THEN a ELSE b

\* dict.get(key, default)
Get(d, key, default) == IF key \in DOMAIN d.v THEN d.v[key] ELSE default

\* only a dict has a .get method; calling it on anything else is an
\* AttributeError
HasGet(x) == x.t = "dict"

\* isinstance(x, basestring)
IsBasestring(x) == x.t = "str"

\* unicode(x) for the non-text exception messages of the model
Unicode(x) == IF x.t = "int" THEN Str(<<"int", x.n>>) ELSE Str(<<"repr", x>>)

(* ----------------------- redash.query_runner --------------------------- *)
TYPE_INTEGER == Str("integer")
TYPE_FLOAT == Str("float")
TYPE_BOOLEAN == Str("boolean")
TYPE_STRING == Str("string")
TYPE_DATE == Str("date")

\* BaseQueryRunner.fetch_columns: one Column per (name, type) tuple
fetch_columns(column_tuples) ==
    [i \in 1..Len(column_tuples) |->
        [name |-> column_tuples[i][1], type |-> column_tuples[i][2]]]

\* redash.utils.json_dumps / json_loads
json_dumps(data) == [t |-> "str", json |-> data]
json_loads(s) == s.json

(* ------------------------ PRESTO_TYPES_MAPPING ------------------------- *)
PRESTO_TYPES_MAPPING ==
    Dict([integer |-> TYPE_INTEGER,
          tinyint |-> TYPE_INTEGER,
          smallint |-> TYPE_INTEGER,
          long |-> TYPE_INTEGER,
          bigint |-> TYPE_INTEGER,
          float |-> TYPE_FLOAT,
          double |-> TYPE_FLOAT,
          boolean |-> TYPE_BOOLEAN,
          string |-> TYPE_STRING,
          varchar |-> TYPE_STRING,
          date |-> TYPE_DATE])

\* as ColumnTuples, with 'string' for a type name missing from the table
ColumnTuplesDefaultString(description) ==
    [i \in 1..Len(description) |->
        <<description[i][1],
          Get(PRESTO_TYPES_MAPPING, description[i][2], TYPE_STRING)>>]

\* [(i[0], PRESTO_TYPES_MAPPING.get(i[1], None)) for i in cursor.description]
ColumnTuples(description) ==
    [i \in 1..Len(description) |->
        <<description[i][1], Get(PRESTO_TYPES_MAPPING, description[i][2], None)>>]

\* as ZipDict, the first pair with a key kept
ZipDictFirst(names, r) ==
    LET n == Min(Len(names), Len(r))
        keys == {names[i] : i \in 1..n}
        First(k) == CHOOSE i \in 1..n :
                       /\ names[i] = k
                       /\ \A j \in 1..n : names[j] = k => i <= j
    IN [k \in keys |-> r[First(k)]]

\* dict(zip(names, r)): pairs up to the shorter length, a later pair
\* replaces an earlier one with the same key
ZipDict(names, r) ==
    LET n == Min(Len(names), Len(r))
        keys == {names[i] : i \in 1..n}
        Last(k) == CHOOSE i \in 1..n :
                      /\ names[i] = k
                      /\ \A j \in 1..n : names[j] = k => j <= i
    IN [k \in keys |-> r[Last(k)]]

\* the body of the try block after cursor.execute(query) succeeded
ResultData(description, fetched) ==
    LET columns == fetch_columns(ColumnTuples(description))
        names == [i \in 1..Len(columns) |-> columns[i].name]
    IN [columns |-> columns,
        rows |-> [i \in 1..Len(fetched) |-> ZipDict(names, fetched[i])]]

(* ------------------------------ text ----------------------------------- *)
Comma == ","
Blank == " "

RECURSIVE Split(_)
\* s.split(','): the pieces between the commas, empty pieces included
Split(s) ==
    IF \A i \in 1..Len(s) : s[i] # Comma
    THEN <<s>>
    ELSE LET i == CHOOSE k \in 1..Len(s) :
                     /\ s[k] = Comma
                     /\ \A j \in 1..(k - 1) : s[j] # Comma
         IN <<SubSeq(s, 1, i - 1)>> \o Split(SubSeq(s, i + 1, Len(s)))

RECURSIVE Strip(_)
\* str.strip: drops leading and trailing whitespace
Strip(s) ==
    IF s = <<>> THEN s
    ELSE IF s[1] = Blank THEN Strip(Tail(s))
    ELSE IF s[Len(s)] = Blank THEN Strip(SubSeq(s, 1, Len(s) - 1))
    ELSE s

\* "'{0}'".format(w)
Quote(w) == <<"'">> \o w \o <<"'">>

RECURSIVE Join(_, _)
\* sep.join(list)
Join(sep, list) ==
    IF list = <<>> THEN <<>>
    ELSE IF Len(list) = 1 THEN list[1]
    ELSE list[1] \o sep \o Join(sep, Tail(list))

default_table_schemas == << <<"pg_catalog">>, <<"information_schema">> >>

\* as FinalTableSchemas, the entries left untrimmed
FinalTableSchemasUnstripped(cfg) ==
    LET blacklisted_table_schemas ==
            IF "blacklisted_table_schemas" \in DOMAIN cfg
            THEN cfg["blacklisted_table_schemas"] ELSE <<>>
    IN default_table_schemas \o Split(blacklisted_table_schemas)

\* get_schema, lines 92-94
FinalTableSchemas(cfg) ==
    LET blacklisted_table_schemas ==
            IF "blacklisted_table_schemas" \in DOMAIN cfg
            THEN cfg["blacklisted_table_schemas"] ELSE <<>>
        pieces == Split(blacklisted_table_schemas)
    IN default_table_schemas \o [i \in 1..Len(pieces) |-> Strip(pieces[i])]

\* get_schema, lines 95-101
CatalogQuery(final_table_schemas) ==
    LET table_schemas ==
            Join(<<Comma, Blank>>,
                 [i \in 1..Len(final_table_schemas) |-> Quote(final_table_schemas[i])])
    IN <<"SELECT table_schema, table_name, column_name FROM information_schema.columns WHERE table_schema NOT IN (">>
       \o table_schemas \o <<")">>

\* as EffectiveUsername, the user_impersonation flag ignored
EffectiveUsernameIgnoringFlag(cfg, u) ==
    IF u = None
    THEN (IF "username" \in DOMAIN cfg THEN cfg["username"] ELSE "redash")
    ELSE u.email

\* run_query, lines 121-125
EffectiveUsername(cfg, u) ==
    LET should_impersonate_user ==
            IF "user_impersonation" \in DOMAIN cfg
            THEN cfg["user_impersonation"] ELSE FALSE
    IN IF ~should_impersonate_user \/ u = None
       THEN (IF "username" \in DOMAIN cfg THEN cfg["username"] ELSE "redash")
       ELSE u.email

\* '{}.{}'.format(row['table_schema'], row['table_name'])
TableName(row) == row["table_schema"] \o <<".">> \o row["table_name"]

RECURSIVE FoldRowsOverwrite(_, _)
\* as FoldRows, the column list replaced instead of appended to
FoldRowsOverwrite(rows, schema) ==
    IF rows = <<>> THEN schema
    ELSE LET row == Head(rows)
             table_name == TableName(row)
         IN FoldRowsOverwrite(Tail(rows),
                (table_name :> [name |-> table_name,
                                columns |-> <<row["column_name"]>>]) @@ schema)

RECURSIVE FoldRows(_, _)
\* get_schema, lines 110-116: the loop over results['rows'], from the
\* dict built so far
FoldRows(rows, schema) ==
    IF rows = <<>> THEN schema
    ELSE LET row == Head(rows)
             table_name == TableName(row)
             entered == IF table_name \in DOMAIN schema THEN schema
                        ELSE schema @@ (table_name :>
                                 [name |-> table_name, columns |-> <<>>])
             appended == [entered EXCEPT ![table_name].columns =
                                               Append(@, row["column_name"])]
         IN FoldRows(Tail(rows), appended)

\* schema.values() of a plain dict: the entries in an order the hash
\* table decides, any order of the keys
ValuesOrders(schema) ==
    LET keys == DOMAIN schema
        n == Cardinality(keys)
    IN {[i \in 1..n |-> schema[o[i]]] :
           o \in {p \in [1..n -> keys] : \A k \in keys : \E i \in 1..n : p[i] = k}}

(* --------------------------- error handling ---------------------------- *)
Exc(type, message) == [t |-> "exception", type |-> type, message |-> message]

\* 'Unspecified DatabaseError: {0}'.format(db.message)
DefaultMessage(message) ==
    [t |-> "str", fmt |-> "Unspecified DatabaseError: {0}", arg |-> message]

\* the default of db.message.get('failureInfo', ...): a set literal
FailureInfoDefault == PySet(<<Str("message"), None>>)

\* run_query, lines 151-159: the except DatabaseError clause; raised is
\* TRUE when the clause itself fails with an AttributeError
HandleDatabaseErrorOutcome(message) ==
    LET default_message == DefaultMessage(message)
        failureInfo == IF message.t = "dict"
                       THEN Get(message, "failureInfo", FailureInfoDefault)
                       ELSE EmptyDict
        raised == message.t = "dict" /\ ~HasGet(failureInfo)
        extracted == IF message.t = "dict" /\ ~raised
                     THEN Get(failureInfo, "message", None)
                     ELSE None
    IN [raised |-> raised,
        error |-> IF extracted = None THEN default_message ELSE extracted]

\* run_query, lines 165-168: the except Exception clause
HandleExceptionError(message) ==
    IF ~IsBasestring(message) THEN Unicode(message) ELSE message

Cancelled == Str("Query cancelled by user.")

\* get_schema, line 105
SchemaQueryFailed(err) == err # None

(* ------------------------------ inputs --------------------------------- *)
SeqsUpTo(S, n) == UNION {[1..k -> S] : k \in 0..n}

Opt(key, o) == IF o = <<>> THEN <<>> ELSE (key :> o[1])

ConfigOf(imp, un, bl) ==
    Opt("user_impersonation", imp) @@ Opt("username", un)
        @@ Opt("blacklisted_table_schemas", bl)

Alphabet == {"a", "b", Blank, Comma}

Configurations ==
    {ConfigOf(imp, un, bl) :
        imp \in {<<>>, <<TRUE>>, <<FALSE>>},
        un \in {<<>>, <<"svc">>},
        bl \in {<<>>}}

BlacklistConfigurations ==
    {ConfigOf(<<>>, <<>>, bl) :
        bl \in {<<>>} \cup {<<s>> : s \in SeqsUpTo(Alphabet, MaxLen)}}

Users == <<None, User("a@b.com")>>

UserQuery == <<"SELECT 1">>

Descriptions == SeqsUpTo({ <<"x", "bigint">>, <<"y", "json">> }, MaxCols)

TypeNames ==
    {"integer", "tinyint", "smallint", "long", "bigint", "float", "double",
     "boolean", "string", "varchar", "date",
     "Integer", "DATE", "timestamp", ""}

TypeDescriptions == SeqsUpTo({"x"} \X TypeNames, MaxTypeCols)

\* the rows an engine returns for a description: each as wide as the
\* description, with different values in different positions
EngineRows(n) == {[i \in 1..n |-> i], [i \in 1..n |-> n + 1 - i]}

Fetched(description) == SeqsUpTo(EngineRows(Len(description)), MaxRows)

CatalogDescription ==
    << <<"table_schema", "varchar">>, <<"table_name", "varchar">>,
       <<"column_name", "varchar">> >>

\* (table_schema, table_name) of the tables the catalog lists; two of them
\* format to the same qualified name
CatalogTables ==
    { << <<"s">>, <<"t">> >>,
      << <<"s", ".", "t">>, <<"t">> >>,
      << <<"s">>, <<"t", ".", "t">> >> }

CatalogFetched ==
    SeqsUpTo({ <<tb[1], tb[2], c>> : tb \in CatalogTables, c \in { <<"c1">>, <<"c2">> } },
             MaxCatalogRows)

\* the payloads an engine-reported DatabaseError carries in db.message
DatabaseErrorMessages ==
    << Str("line 1:1: mismatched input"),
       Dict([failureInfo |-> Dict([message |-> Str("table not found")])]),
       Dict([failureInfo |-> Dict([type |-> Str("x")])]),
       Dict([failureInfo |-> Dict([message |-> None])]),
       Dict([message |-> Str("oops")]),
       Dict([failureInfo |-> Str("oops")]),
       EmptyDict >>

\* the messages of other failures inside the try block
ExceptionMessages == << Str(""), Str("boom"), PyInt(42) >>

(* ------------------------------ state ---------------------------------- *)
VARIABLES
    configuration,        \* self.configuration
    pc,                   \* where the running call stands
    caller,               \* the entry point the host called
    user,                 \* run_query's user argument
    query,                \* run_query's query argument
    connection,           \* the connection run_query opened
    cursor,               \* connection.cursor() and what the engine gave it
    db,                   \* the exception the except clause caught
    json_data,            \* run_query's json_data
    error,                \* run_query's error
    returned,             \* the pair run_query returned
    final_table_schemas,  \* get_schema's final_table_schemas
    result                \* how the host's call ended

vars == <<configuration, pc, caller, user, query, connection, cursor, db,
          json_data, error, returned, final_table_schemas, result>>

Unbound == [kind |-> "unbound"]
Return(v) == [kind |-> "return", value |-> v]
Raise(e) == [kind |-> "raise", exc |-> e]

NoConnection == [open |-> FALSE, username |-> ""]
NoCursor == [state |-> "none", description |-> <<>>, fetched |-> <<>>]

Fresh ==
    /\ pc = "idle"
    /\ caller = "none"
    /\ user = None
    /\ query = <<>>
    /\ connection = NoConnection
    /\ cursor = NoCursor
    /\ db = None
    /\ json_data = None
    /\ error = None
    /\ returned = Unbound
    /\ final_table_schemas = <<>>
    /\ result = Unbound

Init == configuration \in Configurations /\ Fresh

\* an exception leaves run_query (and get_schema, when it is the caller):
\* nothing on the way closes the connection
Propagate(e) ==
    /\ result' = Raise(e)
    /\ pc' = "done"

\* a call starts with fresh locals
Enter(c, u, q, fts) ==
    /\ pc \in {"idle", "done"}
    /\ caller' = c
    /\ user' = u
    /\ query' = q
    /\ final_table_schemas' = fts
    /\ connection' = NoConnection
    /\ cursor' = NoCursor
    /\ db' = None
    /\ json_data' = None
    /\ error' = None
    /\ returned' = Unbound
    /\ result' = Unbound
    /\ pc' = "connect"
    /\ UNCHANGED configuration

\* the host calls run_query(query, user)
RunQueryCall == \E i \in 1..Len(Users) : Enter("run_query", Users[i], UserQuery, <<>>)

\* the host calls get_schema(): lines 90-103, up to run_query(query, None)
GetSchemaCall ==
    LET fts == FinalTableSchemas(configuration)
    IN Enter("get_schema", None, CatalogQuery(fts), fts)

\* lines 121-138: presto.connect(...) and connection.cursor() succeed
ConnectOk ==
    /\ pc = "connect"
    /\ connection' = [open |-> TRUE,
                      username |-> EffectiveUsername(configuration, user)]
    /\ cursor' = [NoCursor EXCEPT !.state = "open"]
    /\ pc' = "try"
    /\ UNCHANGED <<configuration, caller, user, query, db, json_data, error,
                   returned, final_table_schemas, result>>

\* lines 127-138 are outside the try block: a failure to connect, or an
\* interrupt arriving there, leaves run_query as an exception
ConnectFails ==
    /\ pc = "connect"
    /\ \E e \in {"ValueError", "KeyboardInterrupt"} : Propagate(Exc(e, Str("")))
    /\ UNCHANGED <<configuration, caller, user, query, connection, cursor, db,
                   json_data, error, returned, final_table_schemas>>

\* lines 141-149: the try block runs to its end
TrySucceeds(description, fetched) ==
    /\ pc = "try"
    /\ cursor' = [state |-> "executed", description |-> description,
                  fetched |-> fetched]
    /\ json_data' = json_dumps(ResultData(description, fetched))
    /\ error' = None
    /\ pc' = "return"
    /\ UNCHANGED <<configuration, caller, user, query, connection, db,
                   returned, final_table_schemas, result>>

TryOk ==
    /\ caller = "run_query"
    /\ \E d \in Descriptions : \E f \in Fetched(d) : TrySucceeds(d, f)

TryOkCatalog ==
    /\ caller = "get_schema"
    /\ \E f \in CatalogFetched : TrySucceeds(CatalogDescription, f)

TryOkTypes ==
    /\ caller = "run_query"
    /\ \E d \in TypeDescriptions : TrySucceeds(d, <<>>)

\* the try block raises: the matching except clause is entered
Caught(clause, e) ==
    /\ pc = "try"
    /\ db' = e
    /\ cursor' = [cursor EXCEPT !.state = "executing"]
    /\ pc' = clause
    /\ UNCHANGED <<configuration, caller, user, query, connection, json_data,
                   error, returned, final_table_schemas, result>>

TryDatabaseError ==
    \E i \in 1..Len(DatabaseErrorMessages) :
        Caught("except DatabaseError", Exc("DatabaseError", DatabaseErrorMessages[i]))

TryInterrupted ==
    \E e \in {"KeyboardInterrupt", "InterruptException"} :
        Caught("except Interrupt", Exc(e, Str("")))

TryException ==
    \E i \in 1..Len(ExceptionMessages) :
        Caught("except Exception", Exc("Exception", ExceptionMessages[i]))

\* lines 150-159
HandleDatabaseError ==
    /\ pc = "except DatabaseError"
    /\ LET outcome == HandleDatabaseErrorOutcome(db.message)
       IN IF outcome.raised
          THEN /\ Propagate(Exc("AttributeError", Str("")))
               /\ UNCHANGED error
          ELSE /\ error' = outcome.error
               /\ pc' = "return"
               /\ UNCHANGED result
    /\ json_data' = None
    /\ UNCHANGED <<configuration, caller, user, query, connection, cursor, db,
                   returned, final_table_schemas>>

\* lines 160-163, cursor.cancel() succeeds
CancelOk ==
    /\ pc = "except Interrupt"
    /\ cursor' = [cursor EXCEPT !.state = "cancelled"]
    /\ error' = Cancelled
    /\ json_data' = None
    /\ pc' = "return"
    /\ UNCHANGED <<configuration, caller, user, query, connection, db,
                   returned, final_table_schemas, result>>

\* line 161, cursor.cancel() raises: the cancel request was made, the
\* exception leaves the except clause
CancelRaises ==
    /\ pc = "except Interrupt"
    /\ cursor' = [cursor EXCEPT !.state = "cancel failed"]
    /\ Propagate(Exc("ProgrammingError", Str("")))
    /\ UNCHANGED <<configuration, caller, user, query, connection, db,
                   json_data, error, returned, final_table_schemas>>

\* lines 164-168
HandleException ==
    /\ pc = "except Exception"
    /\ json_data' = None
    /\ error' = HandleExceptionError(db.message)
    /\ pc' = "return"
    /\ UNCHANGED <<configuration, caller, user, query, connection, cursor, db,
                   returned, final_table_schemas, result>>

\* an interrupt arrives while an except clause is running: no clause of
\* the same try statement catches it
InterruptInHandler ==
    /\ pc \in {"except DatabaseError", "except Exception"}
    /\ Propagate(Exc("KeyboardInterrupt", Str("")))
    /\ UNCHANGED <<configuration, caller, user, query, connection, cursor, db,
                   json_data, error, returned, final_table_schemas>>

\* line 170: return json_data, error
RunQueryReturn ==
    /\ pc = "return"
    /\ returned' = Return(<<json_data, error>>)
    /\ IF caller = "run_query"
       THEN /\ result' = Return(<<json_data, error>>)
            /\ pc' = "done"
       ELSE /\ pc' = "get_schema"
            /\ UNCHANGED result
    /\ UNCHANGED <<configuration, caller, user, query, connection, cursor, db,
                   json_data, error, final_table_schemas>>

\* as GetSchemaRaise, an empty schema returned instead of the exception
GetSchemaSwallow ==
    /\ pc = "get_schema"
    /\ SchemaQueryFailed(returned.value[2])
    /\ result' = Return(<<>>)
    /\ pc' = "done"
    /\ UNCHANGED <<configuration, caller, user, query, connection, cursor, db,
                   json_data, error, returned, final_table_schemas>>

\* lines 105-106
GetSchemaRaise ==
    /\ pc = "get_schema"
    /\ SchemaQueryFailed(returned.value[2])
    /\ Propagate(Exc("Exception", Str("Failed getting schema.")))
    /\ UNCHANGED <<configuration, caller, user, query, connection, cursor, db,
                   json_data, error, returned, final_table_schemas>>

\* lines 108-118
GetSchemaReturn ==
    /\ pc = "get_schema"
    /\ ~SchemaQueryFailed(returned.value[2])
    /\ LET results == json_loads(returned.value[1])
       IN \E values \in ValuesOrders(FoldRows(results["rows"], <<>>)) :
              result' = Return(values)
    /\ pc' = "done"
    /\ UNCHANGED <<configuration, caller, user, query, connection, cursor, db,
                   json_data, error, returned, final_table_schemas>>

Next ==
    \/ RunQueryCall
    \/ GetSchemaCall
    \/ ConnectOk
    \/ ConnectFails
    \/ TryOk
    \/ TryOkCatalog
    \/ TryDatabaseError
    \/ TryInterrupted
    \/ TryException
    \/ HandleDatabaseError
    \/ CancelOk
    \/ CancelRaises
    \/ HandleException
    \/ InterruptInHandler
    \/ RunQueryReturn
    \/ GetSchemaRaise
    \/ GetSchemaReturn

Spec == Init /\ [][Next]_vars

\* the exclusion list for every setting of blacklisted_table_schemas
InitExclusion == configuration \in BlacklistConfigurations /\ Fresh

NextExclusion ==
    \/ GetSchemaCall
    \/ ConnectFails

SpecExclusion == InitExclusion /\ [][NextExclusion]_vars

\* the type mapping for every native type name
InitTypes == configuration = ConfigOf(<<>>, <<>>, <<>>) /\ Fresh

NextTypes ==
    \/ RunQueryCall
    \/ ConnectOk
    \/ TryOkTypes
    \/ RunQueryReturn

SpecTypes == InitTypes /\ [][NextTypes]_vars

(* ------------------------------ claims --------------------------------- *)
Finished == pc = "done"

WasInterrupted ==
    \/ db.t = "exception" /\ db.type \in {"KeyboardInterrupt", "InterruptException"}
    \/ result.kind = "raise" /\ result.exc.type = "KeyboardInterrupt"

\* C1: every finished run_query call has returned a pair (json_data, error)
\* in which exactly one component is present
C1_ExactlyOneOutcome ==
    (Finished /\ caller = "run_query") =>
        /\ result.kind = "return"
        /\ (result.value[1] = None) # (result.value[2] = None)

\* C2: when a call has finished, the connection it opened is no longer open
C2_ConnectionReleased == Finished => ~connection.open

\* C3: a run_query call during which a cancellation signal arrived has
\* requested cancellation and returned the error "Query cancelled by user."
C3_CancellationYieldsCancelled ==
    (Finished /\ caller = "run_query" /\ WasInterrupted) =>
        /\ result = Return(<<None, Cancelled>>)
        /\ cursor.state = "cancelled"

Setting ==
    IF "blacklisted_table_schemas" \in DOMAIN configuration
    THEN configuration["blacklisted_table_schemas"] ELSE <<>>

\* the comma-separated entries of s: the maximal comma-free stretches
Entries(s) ==
    {SubSeq(s, p[1], p[2]) :
        p \in {q \in (1..(Len(s) + 1)) \X (0..Len(s)) :
                 /\ q[2] >= q[1] - 1
                 /\ q[1] = 1 \/ s[q[1] - 1] = Comma
                 /\ q[2] = Len(s) \/ s[q[2] + 1] = Comma
                 /\ \A k \in q[1]..q[2] : s[k] # Comma}}

\* x without its leading and trailing blanks
Trimmed(x) ==
    LET inked == {k \in 1..Len(x) : x[k] # Blank}
    IN IF inked = {} THEN <<>>
       ELSE SubSeq(x, CHOOSE k \in inked : \A m \in inked : k <= m,
                      CHOOSE k \in inked : \A m \in inked : m <= k)

Occurs(sub, s) ==
    \E i \in 1..(Len(s) - Len(sub) + 1) : SubSeq(s, i, i + Len(sub) - 1) = sub

ExclusionSet == {final_table_schemas[i] : i \in 1..Len(final_table_schemas)}

DefaultExclusions == { <<"pg_catalog">>, <<"information_schema">> }

\* C4 as stated: the exclusion set is the two defaults united with the
\* trimmed entries of the setting, the empty entries dropped
C4_ExclusionSetDropsEmpty ==
    caller = "get_schema" =>
        ExclusionSet =
            DefaultExclusions \cup ({Trimmed(x) : x \in Entries(Setting)} \ {<<>>})

\* C4 as amended: the exclusion set is the two defaults united with the
\* trimmed entries of the setting, the empty entries kept; every name of it
\* is single-quoted in the catalog query
C4_ExclusionSetKeepsEmpty ==
    caller = "get_schema" =>
        /\ ExclusionSet =
              DefaultExclusions \cup {Trimmed(x) : x \in Entries(Setting)}
        /\ DefaultExclusions \subseteq ExclusionSet
        /\ \A e \in ExclusionSet : Occurs(Quote(e), query)

C4_Witness ==
    /\ caller = "get_schema"
    /\ Setting = <<Blank, "a", Comma, "b">>
    /\ ExclusionSet = DefaultExclusions \cup { <<"a">>, <<"b">> }

\* "<table_schema>.<table_name>" of a catalog row
QualifiedName(r) == r[1] \o <<".">> \o r[2]

RECURSIVE ColumnsOf(_, _)
\* the column_name values of the rows of one table, in row order
ColumnsOf(rows, name) ==
    IF rows = <<>> THEN <<>>
    ELSE (IF QualifiedName(Head(rows)) = name THEN <<Head(rows)[3]>> ELSE <<>>)
         \o ColumnsOf(Tail(rows), name)

FirstRowOf(rows, name) ==
    CHOOSE i \in 1..Len(rows) :
        /\ QualifiedName(rows[i]) = name
        /\ \A j \in 1..(i - 1) : QualifiedName(rows[j]) # name

SchemaReturned == Finished /\ caller = "get_schema" /\ result.kind = "return"

OneEntryPerTable(out, rows) ==
    /\ {out[i].name : i \in 1..Len(out)}
          = {QualifiedName(rows[k]) : k \in 1..Len(rows)}
    /\ \A i, j \in 1..Len(out) : out[i].name = out[j].name => i = j
    /\ \A i \in 1..Len(out) : out[i].columns = ColumnsOf(rows, out[i].name)

DatabaseErrorHandled ==
    /\ Finished
    /\ caller = "run_query"
    /\ db.t = "exception"
    /\ db.type = "DatabaseError"
    /\ ~WasInterrupted

\* the message the claim gives for a DatabaseError payload
ClaimedMessage(payload) ==
    IF /\ payload.t = "dict"
       /\ "failureInfo" \in DOMAIN payload.v
       /\ payload.v["failureInfo"].t = "dict"
       /\ "message" \in DOMAIN payload.v["failureInfo"].v
       /\ payload.v["failureInfo"].v["message"] # None
    THEN payload.v["failureInfo"].v["message"]
    ELSE DefaultMessage(payload)

\* C6: after an engine-reported database error the call returns the nested
\* failure-info message when the payload has one, and otherwise the
\* "Unspecified DatabaseError: <raw message>" fallback
C6_DatabaseErrorMessage ==
    DatabaseErrorHandled => result = Return(<<None, ClaimedMessage(db.message)>>)

\* C7: get_schema raises "Failed getting schema." whenever run_query
\* returned an error, and returns a schema only when it returned none
C7_SchemaFailsOnError ==
    (caller = "get_schema" /\ Finished) =>
        /\ (returned.kind = "return" /\ returned.value[2] # None)
              => result = Raise(Exc("Exception", Str("Failed getting schema.")))
        /\ result.kind = "return"
              => /\ returned.kind = "return"
                 /\ returned.value[2] = None
                 /\ returned.value[1] # None

C7_Witness ==
    /\ caller = "get_schema"
    /\ Finished
    /\ returned = Return(<<None, Cancelled>>)
    /\ result.kind = "raise"

ConfiguredUsername ==
    IF "username" \in DOMAIN configuration
    THEN configuration["username"] ELSE "redash"

ImpersonationOn ==
    /\ "user_impersonation" \in DOMAIN configuration
    /\ configuration["user_impersonation"]

\* C8: the connection is opened as the principal's email exactly when
\* user_impersonation is true and a principal is present, and as the
\* configured username (default "redash") otherwise, as in every
\* get_schema call
C8_EffectiveUsername ==
    connection.open =>
        /\ (ImpersonationOn /\ user # None) => connection.username = user.email
        /\ ~(ImpersonationOn /\ user # None)
              => connection.username = ConfiguredUsername
        /\ caller = "get_schema" => connection.username = ConfiguredUsername
        /\ (connection.username = "a@b.com") <=> (ImpersonationOn /\ user # None)

C8_Witness ==
    /\ connection.open
    /\ connection.username = "a@b.com"
    /\ ConfiguredUsername = "svc"

QuerySucceeded ==
    /\ caller = "run_query"
    /\ cursor.state = "executed"
    /\ pc \in {"return", "done"}

\* C9: a successful run_query has one Row per engine row, in the same
\* order, the keys of each Row are the Column names, and the value under
\* a name is the engine row's value at the last column of that name
C9_RowsMatchEngine ==
    QuerySucceeded =>
        LET data == json_loads(json_data)
            columns == data.columns
            fetched == cursor.fetched
        IN /\ error = None
           /\ Len(data.rows) = Len(fetched)
           /\ \A i \in 1..Len(fetched) :
                 /\ DOMAIN data.rows[i]
                       = {columns[j].name : j \in 1..Len(columns)}
                 /\ \A j \in 1..Len(columns) :
                       (\A k \in (j + 1)..Len(columns) :
                            columns[k].name # columns[j].name)
                          => data.rows[i][columns[j].name] = fetched[i][j]

C9_Witness ==
    /\ QuerySucceeded
    /\ Finished
    /\ cursor.description = << <<"x", "bigint">>, <<"x", "bigint">> >>
    /\ cursor.fetched = << <<1, 2>>, <<2, 1>> >>

UNKNOWN == None

\* the canonical type the claim gives for a native type name
ClaimedType(name) ==
    CASE name \in {"integer", "tinyint", "smallint", "long", "bigint"} -> TYPE_INTEGER
      [] name \in {"float", "double"} -> TYPE_FLOAT
      [] name = "boolean" -> TYPE_BOOLEAN
      [] name \in {"string", "varchar"} -> TYPE_STRING
      [] name = "date" -> TYPE_DATE
      [] OTHER -> UNKNOWN

IsCanonical(type) ==
    \/ type = TYPE_INTEGER
    \/ type = TYPE_FLOAT
    \/ type = TYPE_BOOLEAN
    \/ type = TYPE_STRING
    \/ type = TYPE_DATE
    \/ type = UNKNOWN

\* C10: every result column gets the canonical type the fixed table gives
\* its native type name, UNKNOWN for a name that is not in the table, and
\* the call does not fail over it
C10_TypeMapping ==
    QuerySucceeded =>
        LET columns == json_loads(json_data).columns
        IN /\ error = None
           /\ Len(columns) = Len(cursor.description)
           /\ \A i \in 1..Len(columns) :
                 /\ columns[i].type = ClaimedType(cursor.description[i][2])
                 /\ IsCanonical(columns[i].type)

C10_Witness ==
    /\ QuerySucceeded
    /\ Finished
    /\ cursor.description = << <<"x", "bigint">>, <<"x", "timestamp">> >>
    /\ result.kind = "return"

====
